---- MODULE Spec2Model ----
(***************************************************************************)
(* Splitr: the balance computation of the Convex query getGroupExpenses    *)
(* (convex/groups.js).  The handler is modelled step by step: the gather   *)
(* phase (group lookup, membership check, reads), then Steps 1-8 of the    *)
(* handler.  The expenses and settlements stored for the group are the     *)
(* handler's inputs; each loop iteration draws the next stored record.     *)
(* Amounts are whole minor units; JavaScript's undefined and NaN are kept  *)
(* because the code produces them for ids that have no ledger entry.       *)
(***************************************************************************)
EXTENDS Integers, Sequences, FiniteSets, TLC

\* ------------------------------------------------------------- bounds
\* How many different amounts the stored records use.
NumAmounts == 1
\* How many splits and settlements the handler iterates over in one call.
MaxRecords == 3
\* How many splits and settlements the stored lists of SpecOrder hold together.
MaxOrderRecords == 2

\* The ids in group.members: a group of three, the A, B, C of the scenarios.
\* The ids are ordered as Step 5 orders them (a >= b compares the id strings).
Members == {1, 2, 3}
\* A user id that is not in group.members (a user removed from the group).
Stranger == Cardinality(Members) + 1
Users == Members \cup {Stranger}
\* Split and settlement amounts, in minor units: 10, 15, ...
Amounts == {10 + 5 * (k - 1) : k \in 1..NumAmounts}

\* ------------------------------------------------ JavaScript numbers
Num(n) == [k |-> "num", n |-> n]
NaN == [k |-> "nan", n |-> 0]
Undefined == [k |-> "undef", n |-> 0]
IsNum(v) == v.k = "num"
\* v + w and v - w on numbers; undefined or NaN on either side gives NaN.
JsAdd(v, w) == IF IsNum(v) /\ IsNum(w) THEN Num(v.n + w.n) ELSE NaN
JsSub(v, w) == IF IsNum(v) /\ IsNum(w) THEN Num(v.n - w.n) ELSE NaN
\* v > 0 and v < 0: false for NaN and undefined.
JsPos(v) == IsNum(v) /\ v.n > 0
JsNeg(v) == IsNum(v) /\ v.n < 0

\* ----------------------------------------------------------- state
VARIABLES
  pc,              \* the handler's position
  groupExists,     \* ctx.db.get(groupId) finds the group
  callerInGroup,   \* group.members has an entry with currentUser._id
  expensesRead,    \* the expenses query has run
  settlementsRead, \* the settlements query has run
  ids,             \* Step 1: the member ids (the roster's order is drawn in Step 5,
                   \* the one step whose result could depend on it)
  totals,          \* Step 2: id -> net balance
  ledger,          \* Step 2: <<debtor, creditor>> -> amount
  payer,           \* Step 3: exp.paidByUserId of the expense being applied
  nRec,            \* splits and settlements iterated over so far
  last,            \* what the last loop iteration was given
  due,             \* reference: <<x, y>> -> unsettled splits of x on y's expenses
                   \*            minus settlements paid by x to y
  error,           \* the message of the Error the handler threw
  result,          \* the handler's return value
  inExpenses,      \* SpecOrder: the expenses stored for the group, as a list
  inSettlements    \* SpecOrder: the settlements stored for the group, as a list

vars == <<pc, groupExists, callerInGroup, expensesRead, settlementsRead, ids, totals,
          ledger, payer, nRec, last, due, error, result, inExpenses, inSettlements>>

\* The stored lists; Spec draws the records one by one instead.
stored == <<inExpenses, inSettlements>>

Range(s) == {s[i] : i \in 1..Len(s)}
Perms(S) == {s \in [1..Cardinality(S) -> S] : \A i, j \in 1..Cardinality(S) : s[i] = s[j] => i = j}

RECURSIVE SumOver(_, _)
SumOver(S, f) == IF S = {} THEN 0
                 ELSE LET x == CHOOSE y \in S : TRUE IN f[x] + SumOver(S \ {x}, f)

\* The orders group.members can list the members in.
Rosters == Perms(Members)

NoResult == [status |-> "pending", fields |-> {}, balances |-> <<>>]

Init ==
  /\ pc = "getGroup"
  /\ groupExists \in BOOLEAN
  /\ callerInGroup \in BOOLEAN
  /\ expensesRead = FALSE
  /\ settlementsRead = FALSE
  /\ ids = {}
  /\ totals = [u \in Users |-> Undefined]
  /\ ledger = [p \in Users \X Users |-> Undefined]
  /\ payer = 0
  /\ nRec = 0
  /\ last = "none"
  /\ due = [p \in Members \X Members |-> 0]
  /\ error = "none"
  /\ result = NoResult
  /\ inExpenses = <<>>
  /\ inSettlements = <<>>

\* ----------------------------------------------------- gather phase
\* const group = await ctx.db.get(groupId); if (!group) throw ...
GetGroup ==
  /\ pc = "getGroup"
  /\ IF groupExists
       THEN pc' = "checkMember" /\ error' = error
       ELSE pc' = "error" /\ error' = "Group not found"
  /\ UNCHANGED <<groupExists, callerInGroup, expensesRead, settlementsRead, ids, totals,
                 ledger, payer, nRec, last, due, result>>
  /\ UNCHANGED stored

\* Mutant: the membership check is left out.
CheckMemberSkipped ==
  /\ pc = "checkMember"
  /\ pc' = "readExpenses"
  /\ UNCHANGED <<groupExists, callerInGroup, expensesRead, settlementsRead, ids, totals,
                 ledger, payer, nRec, last, due, error, result>>
  /\ UNCHANGED stored

\* if (!group.members.some((m) => m.userId === currentUser._id)) throw ...
CheckMember ==
  /\ pc = "checkMember"
  /\ IF callerInGroup
       THEN pc' = "readExpenses" /\ error' = error
       ELSE pc' = "error" /\ error' = "You are not a member of this group"
  /\ UNCHANGED <<groupExists, callerInGroup, expensesRead, settlementsRead, ids, totals,
                 ledger, payer, nRec, last, due, result>>
  /\ UNCHANGED stored

ReadExpenses ==
  /\ pc = "readExpenses"
  /\ expensesRead' = TRUE
  /\ pc' = "readSettlements"
  /\ UNCHANGED <<groupExists, callerInGroup, settlementsRead, ids, totals,
                 ledger, payer, nRec, last, due, error, result>>
  /\ UNCHANGED stored

ReadSettlements ==
  /\ pc = "readSettlements"
  /\ settlementsRead' = TRUE
  /\ pc' = "memberLookup"
  /\ UNCHANGED <<groupExists, callerInGroup, expensesRead, ids, totals,
                 ledger, payer, nRec, last, due, error, result>>
  /\ UNCHANGED stored

\* Step 1: the member details.  A member whose user record is gone makes
\* ctx.db.get return null, and u._id throws a TypeError.
BuildMemberLookup ==
  /\ pc = "memberLookup"
  /\ \E recordMissing \in BOOLEAN :
       IF recordMissing
         THEN /\ pc' = "error"
              /\ error' = "TypeError: u is null"
              /\ ids' = ids
         ELSE /\ pc' = "initLedgers"
              /\ error' = error
              /\ ids' = Members
  /\ UNCHANGED <<groupExists, callerInGroup, expensesRead, settlementsRead, totals,
                 ledger, payer, nRec, last, due, result>>
  /\ UNCHANGED stored

\* Step 2: totals[id] = 0; ledger[a][b] = 0 for a !== b.
InitTotals(idSet) == [u \in Users |-> IF u \in idSet THEN Num(0) ELSE Undefined]
InitLedger(idSet) ==
  [p \in Users \X Users |->
     IF p[1] \in idSet /\ p[2] \in idSet /\ p[1] # p[2]
       THEN Num(0) ELSE Undefined]

InitLedgers ==
  /\ pc = "initLedgers"
  /\ totals' = InitTotals(ids)
  /\ ledger' = InitLedger(ids)
  /\ pc' = "expenses"
  /\ UNCHANGED <<groupExists, callerInGroup, expensesRead, settlementsRead, ids,
                 payer, nRec, last, due, error, result>>
  /\ UNCHANGED stored

\* ---------------------------------------------------------- Step 3
\* One iteration of the inner loop: split {userId, amount, paid} of an expense
\* paid by payerId.  threw: ledger[debtor] is undefined, so reading
\* ledger[debtor][payer] throws a TypeError (after totals were updated).
\* Mutant: the "|| split.paid" of the skip test is left out.
ApplySplitIgnoresPaid(tot, led, idSet, payerId, split) ==
  IF split.userId = payerId
    THEN [totals |-> tot, ledger |-> led, threw |-> FALSE]
    ELSE LET debtor == split.userId
             amt == Num(split.amount)
             t1 == [tot EXCEPT ![payerId] = JsAdd(@, amt)]
             t2 == [t1 EXCEPT ![debtor] = JsSub(@, amt)]
         IN IF debtor \notin idSet
              THEN [totals |-> t2, ledger |-> led, threw |-> TRUE]
              ELSE [totals |-> t2,
                    ledger |-> [led EXCEPT ![<<debtor, payerId>>] = JsAdd(@, amt)],
                    threw |-> FALSE]

\* Mutant: the debt is recorded as ledger[payer][debtor].
ApplySplitWrongDirection(tot, led, idSet, payerId, split) ==
  IF split.userId = payerId \/ split.paid
    THEN [totals |-> tot, ledger |-> led, threw |-> FALSE]
    ELSE LET debtor == split.userId
             amt == Num(split.amount)
             t1 == [tot EXCEPT ![payerId] = JsAdd(@, amt)]
             t2 == [t1 EXCEPT ![debtor] = JsSub(@, amt)]
         IN IF debtor \notin idSet
              THEN [totals |-> t2, ledger |-> led, threw |-> TRUE]
              ELSE [totals |-> t2,
                    ledger |-> [led EXCEPT ![<<payerId, debtor>>] = JsAdd(@, amt)],
                    threw |-> FALSE]

ApplySplit(tot, led, idSet, payerId, split) ==
  IF split.userId = payerId \/ split.paid
    THEN [totals |-> tot, ledger |-> led, threw |-> FALSE]
    ELSE LET debtor == split.userId
             amt == Num(split.amount)
             t1 == [tot EXCEPT ![payerId] = JsAdd(@, amt)]
             t2 == [t1 EXCEPT ![debtor] = JsSub(@, amt)]
         IN IF debtor \notin idSet
              THEN [totals |-> t2, ledger |-> led, threw |-> TRUE]
              ELSE [totals |-> t2,
                    ledger |-> [led EXCEPT ![<<debtor, payerId>>] = JsAdd(@, amt)],
                    threw |-> FALSE]

Splits == [userId : Users, amount : Amounts, paid : BOOLEAN]

\* for (const exp of expenses) { const payer = exp.paidByUserId; ...
NextExpense ==
  /\ pc = "expenses"
  /\ nRec < MaxRecords
  /\ \E p \in Members : payer' = p
  /\ pc' = "splits"
  /\ UNCHANGED <<groupExists, callerInGroup, expensesRead, settlementsRead, ids, totals,
                 ledger, nRec, last, due, error, result>>
  /\ UNCHANGED stored

ApplySplitStep ==
  /\ pc = "splits"
  /\ nRec < MaxRecords
  /\ \E split \in Splits :
       LET r == ApplySplit(totals, ledger, ids, payer, split)
           skipped == split.userId = payer \/ split.paid
       IN /\ totals' = r.totals
          /\ ledger' = r.ledger
          /\ pc' = IF r.threw THEN "error" ELSE pc
          /\ error' = IF r.threw THEN "TypeError: ledger[id] is undefined" ELSE error
          /\ last' = IF split.userId = payer THEN "ownSplit"
                     ELSE IF split.paid THEN "paidSplit"
                     ELSE IF split.userId \notin ids THEN "strangerSplit" ELSE "split"
          /\ due' = IF skipped \/ split.userId \notin Members THEN due
                    ELSE [due EXCEPT ![<<split.userId, payer>>] = @ + split.amount]
  /\ nRec' = nRec + 1
  /\ UNCHANGED <<groupExists, callerInGroup, expensesRead, settlementsRead, ids,
                 payer, result>>
  /\ UNCHANGED stored

\* the inner loop ends: on to the next expense
EndSplits ==
  /\ pc = "splits"
  /\ pc' = "expenses"
  /\ payer' = 0
  /\ UNCHANGED <<groupExists, callerInGroup, expensesRead, settlementsRead, ids, totals,
                 ledger, nRec, last, due, error, result>>
  /\ UNCHANGED stored

\* the outer loop ends: on to Step 4
EndExpenses ==
  /\ pc = "expenses"
  /\ pc' = "settlements"
  /\ UNCHANGED <<groupExists, callerInGroup, expensesRead, settlementsRead, ids, totals,
                 ledger, payer, nRec, last, due, error, result>>
  /\ UNCHANGED stored

\* ---------------------------------------------------------- Step 4
\* One iteration: settlement {paidByUserId, receivedByUserId, amount}.
\* Mutant: the receiver's total is not reduced.
ApplySettlementKeepsReceiver(tot, led, idSet, s) ==
  LET amt == Num(s.amount)
      t1 == [tot EXCEPT ![s.paidByUserId] = JsAdd(@, amt)]
  IN IF s.paidByUserId \notin idSet
       THEN [totals |-> t1, ledger |-> led, threw |-> TRUE]
       ELSE [totals |-> t1,
             ledger |-> [led EXCEPT ![<<s.paidByUserId, s.receivedByUserId>>] = JsSub(@, amt)],
             threw |-> FALSE]

\* Mutant: the ledger entry is clamped at 0 (Math.max(0, entry - amount)).
ApplySettlementClamped(tot, led, idSet, s) ==
  LET amt == Num(s.amount)
      t1 == [tot EXCEPT ![s.paidByUserId] = JsAdd(@, amt)]
      t2 == [t1 EXCEPT ![s.receivedByUserId] = JsSub(@, amt)]
      cut(v) == IF JsNeg(v) THEN Num(0) ELSE v
  IN IF s.paidByUserId \notin idSet
       THEN [totals |-> t2, ledger |-> led, threw |-> TRUE]
       ELSE [totals |-> t2,
             ledger |-> [led EXCEPT ![<<s.paidByUserId, s.receivedByUserId>>] =
                                       cut(JsSub(@, amt))],
             threw |-> FALSE]

ApplySettlement(tot, led, idSet, s) ==
  LET amt == Num(s.amount)
      t1 == [tot EXCEPT ![s.paidByUserId] = JsAdd(@, amt)]
      t2 == [t1 EXCEPT ![s.receivedByUserId] = JsSub(@, amt)]
  IN IF s.paidByUserId \notin idSet
       THEN [totals |-> t2, ledger |-> led, threw |-> TRUE]
       ELSE [totals |-> t2,
             ledger |-> [led EXCEPT ![<<s.paidByUserId, s.receivedByUserId>>] = JsSub(@, amt)],
             threw |-> FALSE]

Settlements == [paidByUserId : Members, receivedByUserId : Members, amount : Amounts]

ApplySettlementStep ==
  /\ pc = "settlements"
  /\ nRec < MaxRecords
  /\ \E s \in Settlements :
       LET r == ApplySettlement(totals, ledger, ids, s)
       IN /\ totals' = r.totals
          /\ ledger' = r.ledger
          /\ pc' = IF r.threw THEN "error" ELSE pc
          /\ error' = IF r.threw THEN "TypeError: ledger[id] is undefined" ELSE error
          /\ last' = IF s.paidByUserId = s.receivedByUserId THEN "selfSettlement"
                     ELSE "settlement"
          /\ due' = [due EXCEPT ![<<s.paidByUserId, s.receivedByUserId>>] = @ - s.amount]
  /\ nRec' = nRec + 1
  /\ UNCHANGED <<groupExists, callerInGroup, expensesRead, settlementsRead, ids,
                 payer, result>>
  /\ UNCHANGED stored

\* ---------------------------------------------------------- Step 5
\* The body of the inner forEach for one (a, b).
\* if (a >= b) return;
SkipsPair(a, b) == a >= b

\* Mutant: the diff < 0 branch is missing.
NetPairNoReverse(led, a, b) ==
  IF SkipsPair(a, b) THEN led
  ELSE LET diff == JsSub(led[<<a, b>>], led[<<b, a>>])
       IN IF JsPos(diff)
            THEN [led EXCEPT ![<<a, b>>] = diff, ![<<b, a>>] = Num(0)]
          ELSE IF JsNeg(diff)
            THEN led
          ELSE [led EXCEPT ![<<a, b>>] = Num(0), ![<<b, a>>] = Num(0)]

\* Mutant: the branches set the winning direction and leave the other entry.
NetPairKeepsOther(led, a, b) ==
  IF SkipsPair(a, b) THEN led
  ELSE LET diff == JsSub(led[<<a, b>>], led[<<b, a>>])
       IN IF JsPos(diff)
            THEN [led EXCEPT ![<<a, b>>] = diff]
          ELSE IF JsNeg(diff)
            THEN [led EXCEPT ![<<b, a>>] = Num(0 - diff.n)]
          ELSE [led EXCEPT ![<<a, b>>] = Num(0), ![<<b, a>>] = Num(0)]

NetPair(led, a, b) ==
  IF SkipsPair(a, b) THEN led
  ELSE LET diff == JsSub(led[<<a, b>>], led[<<b, a>>])
       IN IF JsPos(diff)
            THEN [led EXCEPT ![<<a, b>>] = diff, ![<<b, a>>] = Num(0)]
          ELSE IF JsNeg(diff)
            THEN [led EXCEPT ![<<b, a>>] = Num(0 - diff.n), ![<<a, b>>] = Num(0)]
          ELSE [led EXCEPT ![<<a, b>>] = Num(0), ![<<b, a>>] = Num(0)]

\* ids.forEach((a) => ids.forEach((b) => ...)): the (a, b) in iteration order.
IterPairs(idSeq) ==
  [k \in 1..(Len(idSeq) * Len(idSeq)) |->
     <<idSeq[((k - 1) \div Len(idSeq)) + 1], idSeq[((k - 1) % Len(idSeq)) + 1]>>]

RECURSIVE NetFold(_, _, _)
NetFold(led, pairs, k) ==
  IF k > Len(pairs) THEN led
  ELSE NetFold(NetPair(led, pairs[k][1], pairs[k][2]), pairs, k + 1)

NetOff(led, idSeq) == NetFold(led, IterPairs(idSeq), 1)

\* The (a, b) of one pass that get past "if (a >= b) return".
Processed(idSeq) ==
  SelectSeq(IterPairs(idSeq), LAMBDA p : ~SkipsPair(p[1], p[2]))

NetStep ==
  /\ pc = "settlements"
  /\ \E roster \in {r \in Rosters : Range(r) = ids} : ledger' = NetOff(ledger, roster)
  /\ pc' = "shape"
  /\ UNCHANGED <<groupExists, callerInGroup, expensesRead, settlementsRead, ids, totals,
                 payer, nRec, last, due, error, result>>
  /\ UNCHANGED stored

\* ------------------------------------------------------ Steps 6 to 8
\* Mutant: the filter is v !== 0.
OwesNonZero(led, m) ==
  {[to |-> x, amount |-> led[<<m, x>>].n] :
     x \in {y \in Users : led[<<m, y>>].k # "undef" /\ led[<<m, y>>] # Num(0)}}

\* Object.entries(ledger[m.id]).filter(([, v]) => v > 0)
Owes(led, m) == {[to |-> x, amount |-> led[<<m, x>>].n] : x \in {y \in Users : JsPos(led[<<m, y>>])}}
\* ids.filter((other) => ledger[other][m.id] > 0)
OwedBy(led, idSet, m) ==
  {[from |-> x, amount |-> led[<<x, m>>].n] : x \in {y \in idSet : JsPos(led[<<y, m>>])}}

Balances(tot, led, idSet) ==
  [m \in idSet |->
     [totalBalance |-> tot[m], owes |-> Owes(led, m), owedBy |-> OwedBy(led, idSet, m)]]

ShapeAndReturn ==
  /\ pc = "shape"
  /\ result' = [status |-> "ok",
                fields |-> {"group", "members", "expenses", "settlements", "balances",
                            "userLookupMap"},
                balances |-> Balances(totals, ledger, ids)]
  /\ pc' = "done"
  /\ UNCHANGED <<groupExists, callerInGroup, expensesRead, settlementsRead, ids, totals,
                 ledger, payer, nRec, last, due, error>>
  /\ UNCHANGED stored

Next ==
  \/ GetGroup
  \/ CheckMember
  \/ ReadExpenses
  \/ ReadSettlements
  \/ BuildMemberLookup
  \/ InitLedgers
  \/ NextExpense
  \/ ApplySplitStep
  \/ EndSplits
  \/ EndExpenses
  \/ ApplySettlementStep
  \/ NetStep
  \/ ShapeAndReturn

Spec == Init /\ [][Next]_vars

\* ------------------------------------------- the handler as a function
\* Steps 2 to 6 over the stored lists, in their stored order: what the loops
\* above do record by record.  st is {totals, ledger, threw}.
RECURSIVE ApplySplitsBreak(_, _, _, _, _)
\* Mutant: the skip test leaves the loop (break) instead of going on (continue).
ApplySplitsBreak(st, idSet, payerId, splits, k) ==
  IF st.threw \/ k > Len(splits) THEN st
  ELSE IF splits[k].userId = payerId \/ splits[k].paid THEN st
  ELSE ApplySplitsBreak(ApplySplit(st.totals, st.ledger, idSet, payerId, splits[k]),
                        idSet, payerId, splits, k + 1)

\* for (const split of exp.splits) { ... }
RECURSIVE ApplySplits(_, _, _, _, _)
ApplySplits(st, idSet, payerId, splits, k) ==
  IF st.threw \/ k > Len(splits) THEN st
  ELSE ApplySplits(ApplySplit(st.totals, st.ledger, idSet, payerId, splits[k]),
                   idSet, payerId, splits, k + 1)

\* for (const exp of expenses) { ... }
RECURSIVE ApplyExpenses(_, _, _, _)
ApplyExpenses(st, idSet, expenses, k) ==
  IF st.threw \/ k > Len(expenses) THEN st
  ELSE ApplyExpenses(ApplySplits(st, idSet, expenses[k].paidByUserId, expenses[k].splits, 1),
                     idSet, expenses, k + 1)

\* for (const s of settlements) { ... }
RECURSIVE ApplySettlements(_, _, _, _)
ApplySettlements(st, idSet, settlements, k) ==
  IF st.threw \/ k > Len(settlements) THEN st
  ELSE ApplySettlements(ApplySettlement(st.totals, st.ledger, idSet, settlements[k]),
                        idSet, settlements, k + 1)

\* Step 6 on the netted ledger.
Shape(tot, led, idSet) ==
  [threw |-> FALSE, totals |-> tot, ledger |-> led, balances |-> Balances(tot, led, idSet)]

\* Step 5 and Step 6 on what the loops left.
NetAndShape(st, roster, idSet) ==
  IF st.threw
    THEN [threw |-> TRUE, totals |-> st.totals, ledger |-> st.ledger, balances |-> <<>>]
    ELSE Shape(st.totals, NetOff(st.ledger, roster), idSet)

\* Steps 2 to 6 for a roster order: the totals, the netted ledger, the balances.
GroupBalances(expenses, settlements, roster) ==
  NetAndShape(
    ApplySettlements(
      ApplyExpenses([totals |-> InitTotals(Range(roster)),
                     ledger |-> InitLedger(Range(roster)), threw |-> FALSE],
                    Range(roster), expenses, 1),
      Range(roster), settlements, 1),
    roster, Range(roster))

\* The whole handler in one step, for a caller who is a member of the group.
RunHandler ==
  /\ pc = "getGroup"
  /\ groupExists /\ callerInGroup
  /\ \E roster \in Rosters :
       \E g \in {GroupBalances(inExpenses, inSettlements, roster)} :
          /\ ids' = Range(roster)
          /\ totals' = g.totals
          /\ ledger' = g.ledger
          /\ pc' = IF g.threw THEN "error" ELSE "done"
          /\ error' = IF g.threw THEN "TypeError: ledger[id] is undefined" ELSE error
          /\ result' = IF g.threw THEN result
                       ELSE [status |-> "ok",
                             fields |-> {"group", "members", "expenses", "settlements",
                                         "balances", "userLookupMap"},
                             balances |-> g.balances]
  /\ expensesRead' = TRUE
  /\ settlementsRead' = TRUE
  /\ nRec' = nRec
  /\ UNCHANGED <<groupExists, callerInGroup, payer, last, due, inExpenses, inSettlements>>

\* The stored splits: unsettled ones (the payer's own split is the skipped kind).
MemberSplits == [userId : Members, amount : Amounts, paid : {FALSE}]
ExpensesWith(k) == [paidByUserId : Members, splits : [1..k -> MemberSplits]]

\* The lists of expenses (each with a split or more) that hold n splits together.
RECURSIVE ExpenseLists(_)
ExpenseLists(n) ==
  IF n = 0 THEN {<<>>}
  ELSE UNION {LET rests == ExpenseLists(n - k)
              IN {<<e>> \o rest : e \in ExpensesWith(k), rest \in rests} : k \in 1..n}

SettlementLists(j) == [1..j -> Settlements]

\* How many splits and how many settlements the stored lists can hold.
StoredCounts ==
  {c \in (0..MaxOrderRecords) \X (0..MaxOrderRecords) : c[1] + c[2] <= MaxOrderRecords}

InitOrder ==
  /\ pc = "getGroup"
  /\ groupExists = TRUE
  /\ callerInGroup = TRUE
  /\ expensesRead = FALSE
  /\ settlementsRead = FALSE
  /\ ids = {}
  /\ totals = [u \in Users |-> Undefined]
  /\ ledger = [p \in Users \X Users |-> Undefined]
  /\ payer = 0
  /\ nRec = 0
  /\ last = "none"
  /\ due = [p \in Members \X Members |-> 0]
  /\ error = "none"
  /\ result = NoResult
  /\ \E c \in StoredCounts :
       /\ inExpenses \in ExpenseLists(c[1])
       /\ inSettlements \in SettlementLists(c[2])

NextOrder == RunHandler

SpecOrder == InitOrder /\ [][NextOrder]_vars

\* ============================================================ claims
\* The positions at which totals and ledger exist.
ComputePcs == {"expenses", "splits", "settlements", "shape", "done"}
LoopPcs == {"expenses", "splits", "settlements"}
NettedPcs == {"shape", "done"}

RECURSIVE SumAmounts(_)
SumAmounts(S) == IF S = {} THEN 0
                 ELSE LET x == CHOOSE y \in S : TRUE IN x.amount + SumAmounts(S \ {x})

TotalsSum == SumOver(Members, [m \in Members |-> totals[m].n])
\* What the other members owe m, and what m owes them, by the ledger.
Incoming(m) == SumOver(Members \ {m}, [x \in Members \ {m} |-> ledger[<<x, m>>].n])
Outgoing(m) == SumOver(Members \ {m}, [x \in Members \ {m} |-> ledger[<<m, x>>].n])
\* The same from the reference: splits and settlements of the records applied.
DueIn(m) == SumOver(Members, [x \in Members |-> due[<<x, m>>]])
DueOut(m) == SumOver(Members, [x \in Members |-> due[<<m, x>>]])
SelfSettled == \E m \in Members : ledger[<<m, m>>].k = "nan"

\* C1 (conservation): the net totals of the members
\* are numbers that sum to 0 after every split and every settlement, before and
\* after netting, and so do the totalBalance values of the report.
C1_Conservation ==
  pc \in ComputePcs =>
     /\ \A m \in Members : IsNum(totals[m])
     /\ TotalsSum = 0
     /\ (pc = "done" =>
           SumOver(Members, [m \in Members |-> result.balances[m].totalBalance.n]) = 0)

C1_Witness ==
  /\ pc = "done" /\ last = "settlement"
  /\ \E m \in Members : result.balances[m].totalBalance.n > 0
  /\ \E a, b \in Members : a # b /\ JsPos(ledger[<<a, b>>])

\* C2 (canonical single direction): after Step 5 every entry between two
\* distinct members is a number >= 0 and at most one direction of a pair is
\* nonzero, also when a settlement had made an entry negative.
C2_SingleDirection ==
  pc \in NettedPcs =>
    \A a, b \in Members :
      a # b => /\ IsNum(ledger[<<a, b>>])
               /\ ledger[<<a, b>>].n >= 0
               /\ (ledger[<<a, b>>].n = 0 \/ ledger[<<b, a>>].n = 0)

C2_Witness ==
  /\ pc = "done"
  /\ \E a, b \in Members : a # b /\ due[<<a, b>>] < 0 /\ due[<<b, a>>] > 0
                           /\ JsPos(ledger[<<b, a>>])

\* C3 (overpayment policy): before netting, ledger[a][b] is exactly the splits
\* of a on b's expenses minus the settlements a paid b (no clamping); after
\* netting, with N = D(a,b) - D(b,a), ledger[a][b] = N if N > 0 and 0 otherwise.
C3_PairwiseNet ==
  /\ (pc \in LoopPcs =>
        \A a, b \in Members : a # b => ledger[<<a, b>>] = Num(due[<<a, b>>]))
  /\ (pc \in NettedPcs =>
        \A a, b \in Members :
          a # b => LET N == due[<<a, b>>] - due[<<b, a>>]
                   IN ledger[<<a, b>>] = Num(IF N > 0 THEN N ELSE 0))

\* An overpaid pair in each direction of the id order: the payer of the
\* settlement is the larger id in one pair and the smaller id in another.
C3_Witness ==
  /\ pc = "done"
  /\ \E a, b \in Members : a < b /\ due[<<b, a>>] < 0 /\ due[<<a, b>>] = 0
                           /\ ledger[<<a, b>>] = Num(0 - due[<<b, a>>])
                           /\ ledger[<<b, a>>] = Num(0)
  /\ \E a, b \in Members : a < b /\ due[<<a, b>>] < 0 /\ due[<<b, a>>] = 0
                           /\ ledger[<<b, a>>] = Num(0 - due[<<a, b>>])
                           /\ ledger[<<a, b>>] = Num(0)

\* C4 (net totals against the reference): totals[m] is what the others'
\* unsettled splits on m's expenses add up to, minus m's unsettled splits on
\* the others' expenses, plus settlements m paid, minus settlements m
\* received; and a split marked paid changes neither the totals nor the ledger.
C4_NetTotals ==
  /\ pc \in ComputePcs =>
        \A m \in Members : totals[m] = Num(DueIn(m) - DueOut(m))
  /\ pc = "done" =>
        \A m \in Members : result.balances[m].totalBalance = Num(DueIn(m) - DueOut(m))
  /\ pc = "splits" =>
        \A u \in Users, amt \in Amounts :
          LET r == ApplySplit(totals, ledger, ids, payer,
                              [userId |-> u, amount |-> amt, paid |-> TRUE])
          IN r.totals = totals /\ r.ledger = ledger /\ ~r.threw

\* Scenario A followed by Scenario B: 1 paid, 2 and 3 owe 10 each, 2 repays 10.
C4_Witness ==
  /\ pc = "done" /\ last = "settlement" /\ nRec = 3
  /\ result.balances[1].totalBalance = Num(10)
  /\ result.balances[2].totalBalance = Num(0)
  /\ result.balances[3].totalBalance = Num(0 - 10)
  /\ ledger[<<2, 1>>] = Num(0)
  /\ ledger[<<3, 1>>] = Num(10)

\* C5 (deleted-user tolerance), as claimed: an unsettled split of a user who
\* is not in the group, or a member whose user record is gone, does not make
\* the handler fail.
C5_DeletedUserTolerated ==
  /\ last = "strangerSplit" => pc # "error"
  /\ error # "TypeError: u is null"

\* C6 (no balances without authorization): when the group does not exist or
\* the caller is not in it, the handler throws before any read and before
\* Step 1, and returns nothing; a report is returned only to a member of an
\* existing group.
C6_NoUnauthorizedBalances ==
  /\ (~groupExists \/ ~callerInGroup) =>
        /\ pc \in {"getGroup", "checkMember", "error"}
        /\ ~expensesRead /\ ~settlementsRead
        /\ ids = {} /\ nRec = 0
        /\ \A u \in Users : totals[u] = Undefined
        /\ \A p \in Users \X Users : ledger[p] = Undefined
        /\ result = NoResult
  /\ (pc = "error" /\ ~groupExists) => error = "Group not found"
  /\ (pc = "error" /\ groupExists /\ ~callerInGroup) =>
        error = "You are not a member of this group"
  /\ result.status = "ok" => groupExists /\ callerInGroup

C6_Witness ==
  /\ pc = "error" /\ groupExists /\ ~callerInGroup
  /\ error = "You are not a member of this group"

\* C7 (self-exclusion): no member's record lists the member in owes or owedBy,
\* no ledger[m][m] is a positive amount, and the payer's own split changes
\* neither the totals nor the ledger.
C7_SelfExclusion ==
  /\ \A m \in Members : ~JsPos(ledger[<<m, m>>])
  /\ pc = "done" =>
        \A m \in Members :
          /\ \A o \in result.balances[m].owes : o.to # m
          /\ \A o \in result.balances[m].owedBy : o.from # m
  /\ pc = "splits" =>
        \A amt \in Amounts, paid \in BOOLEAN :
          LET r == ApplySplit(totals, ledger, ids, payer,
                              [userId |-> payer, amount |-> amt, paid |-> paid])
          IN r.totals = totals /\ r.ledger = ledger /\ ~r.threw

\* A member settled with themselves, and the report was built.
C7_Witness ==
  /\ pc = "done" /\ last = "selfSettlement"
  /\ \E m \in Members : ledger[<<m, m>>] = NaN /\ result.balances[m].owes # {}

\* In every roster order, one pass gets past the a >= b test exactly once for
\* each pair of distinct members.
EachPairOnce ==
  \A roster \in Rosters :
    LET P == Processed(roster)
    IN \A a, b \in Members :
         a < b => Cardinality({k \in 1..Len(P) : {P[k][1], P[k][2]} = {a, b}}) = 1

\* C8 (idempotence of netting): a second pass of Step 5 over the netted ledger
\* changes no entry, in whatever order the roster lists the members, and one
\* pass gets past the a >= b test exactly once for each pair of members.
C8_NettingIdempotent ==
  /\ pc = "shape" => \A roster \in Rosters : NetOff(ledger, roster) = ledger
  /\ EachPairOnce

\* Debts in both directions of a pair were netted into one.
C8_Witness ==
  /\ pc = "done"
  /\ \E a, b \in Members : a # b /\ due[<<a, b>>] > 0 /\ due[<<b, a>>] > due[<<a, b>>]
                           /\ JsPos(ledger[<<b, a>>]) /\ ledger[<<a, b>>] = Num(0)

PermsOfSeq(q) == {[i \in 1..Len(q) |-> q[p[i]]] : p \in Perms(1..Len(q))}
\* An expense with its splits in every order.
SplitOrders(e) == {[e EXCEPT !.splits = sp] : sp \in PermsOfSeq(e.splits)}
\* An expense list in every order, each expense's splits in every order.
Rearrangements(E) ==
  UNION {{g \in [1..Len(E) -> UNION {SplitOrders(pe[i]) : i \in 1..Len(E)}] :
            \A i \in 1..Len(E) : g[i] \in SplitOrders(pe[i])} :
           pe \in PermsOfSeq(E)}

\* The roster with the ids in increasing order.
RECURSIVE SortedSeq(_)
SortedSeq(S) ==
  IF S = {} THEN <<>>
  ELSE LET x == CHOOSE y \in S : \A z \in S : y <= z IN <<x>> \o SortedSeq(S \ {x})

\* C9 (order independence): the totals, the netted ledger and the balances
\* the handler computed, whatever the order of the roster it ran with, are
\* those it computes for the expenses in any other order, the splits of each
\* expense in any order and the settlements in any order.
C9_OrderIndependent ==
  pc = "done" =>
    \A pe \in Rearrangements(inExpenses), ps \in PermsOfSeq(inSettlements) :
      GroupBalances(pe, ps, SortedSeq(Members)) =
        [threw |-> FALSE, totals |-> totals, ledger |-> ledger, balances |-> result.balances]

\* Two expenses with opposite debts between their payers, netted to zero:
\* another order applies them the other way round.
C9_Witness ==
  /\ pc = "done"
  /\ Len(inExpenses) = 2
  /\ inExpenses[1].paidByUserId # inExpenses[2].paidByUserId
  /\ inExpenses[1].splits[1].userId = inExpenses[2].paidByUserId
  /\ inExpenses[2].splits[1].userId = inExpenses[1].paidByUserId
  /\ ~inExpenses[1].splits[1].paid /\ ~inExpenses[2].splits[1].paid
  /\ \A a, b \in Members : a # b => ledger[<<a, b>>] = Num(0)
====
